---- MODULE Spec2Model ----
(***************************************************************************)
(* Grammar versioning engine of ast_create: GrammarVersion, the version    *)
(* store directory and GrammarManager (grammar/grammar_manager.py).        *)
(*                                                                         *)
(* A grammar text is a sequence of lines.  A line is a record              *)
(*   k : "rule" | "comment" | "blank" | "directive" | "junk"               *)
(*   n : rule name (rule), target rule (directive), text tag (comment)     *)
(*   q : the rule line starts with the "?" marker                          *)
(*   a : alternatives of a rule, or <<new_option>> of a directive          *)
(* Python None is the empty sequence, a present value x is <<x>>.          *)
(***************************************************************************)
EXTENDS Integers, Sequences, FiniteSets, TLC

VARIABLES
    store,            \* versions_path: file name (version id) -> file content
    current_version,  \* GrammarManager.current_version (None before __init__)
    lark_parser,      \* GrammarManager.lark_parser: <<grammar it was compiled from>>
    clock,            \* wall clock read by datetime.datetime.now()
    nextId,           \* number of uuid4 values drawn so far, plus one
    last,             \* the last call made on the manager and what it returned
    backup_dir,       \* target directory of backup_all_versions
    backup_info,      \* backup_info.json in the target directory
    io                \* GrammarVersion file round trip and store queries

vars == <<store, current_version, lark_parser, clock, nextId, last,
          backup_dir, backup_info, io>>

----------------------------------------------------------------------------
(* Bounds *)

MaxVersions == 2
MaxFiles == 3
MaxStamp == 2

MaxAdds == 1

MaxLines == 3

MaxNewLines == 2

----------------------------------------------------------------------------
(* Optional values *)

None == <<>>

Some(x) == <<x>>

----------------------------------------------------------------------------
(* Grammar texts *)

Line(k, n, q, a) == [k |-> k, n |-> n, q |-> q, a |-> a]

Rule(n, q, a) == Line("rule", n, q, a)

\* a rule definition that does not start in the first column of its line, as in
\* the indented fragments of the test and of generate_grammar_rule
IndentedRule(n, q, a) == Line("irule", n, q, a)

\* Lark reads a rule definition wherever it stands on its line
IsRule(line) == line.k \in {"rule", "irule"}

Blank == Line("blank", "", FALSE, <<>>)

Comment(text) == Line("comment", text, FALSE, <<>>)

Directive(rule_name, new_option) == Line("directive", rule_name, FALSE, <<new_option>>)

Junk == Line("junk", "", FALSE, <<>>)

RuleNames == {"start", "s", "f", "g", "xf"}

\* start: statement+ / ?statement: var_declaration (GRAMMAR_1C, reduced to one statement kind)
GRAMMAR_1C == << Rule("start", FALSE, <<"s">>), Blank, Rule("s", TRUE, <<"T">>) >>

\* the text read from config.grammar.base_grammar_file when it exists
BaseGrammarFile == GRAMMAR_1C

\* "start: statement*\n?statement: "
PlaceholderGrammar == << Rule("start", FALSE, <<"s">>), Rule("s", TRUE, <<"">>) >>

\* the lines re.search(rf"(?m)^(?:\?)?{rule_name}\s*:...") can match: the name,
\* or "?" and the name, at the very start of a line
RuleLines(g, name) == {i \in 1..Len(g) : g[i].k = "rule" /\ g[i].n = name}

\* the lines on which Lark finds a definition of the rule
DefLines(g, name) == {i \in 1..Len(g) : IsRule(g[i]) /\ g[i].n = name}

Symbols(g) == UNION {{g[i].a[j] : j \in 1..Len(g[i].a)} : i \in {x \in 1..Len(g) : IsRule(g[x])}}

\* Lark(grammar, parser="lalr", lexer="contextual") builds a parser iff it accepts
\* the text: no line it cannot read, a start rule, no rule defined twice, every
\* rule that is used is defined, and no rule that can derive the empty string
\* (a lone empty alternative under start's repetition collides in LALR).
Compiles(g) ==
    /\ \A i \in 1..Len(g) : g[i].k # "junk"
    /\ DefLines(g, "start") # {}
    /\ \A n \in RuleNames : Cardinality(DefLines(g, n)) <= 1
    /\ \A y \in Symbols(g) \cap RuleNames : DefLines(g, y) # {}
    /\ \A i \in 1..Len(g) : IsRule(g[i]) => \A j \in 1..Len(g[i].a) : g[i].a[j] # ""

\* _create_parser: the parser artifact is determined by the grammar text
_create_parser(grammar) == [raised |-> ~Compiles(grammar), parser |-> Some(grammar)]

----------------------------------------------------------------------------
(* Timestamps: datetime.datetime.now().isoformat() *)

\* isoformat() drops the fractional part when microsecond = 0; clock counts half seconds
IsoFormat(t) == IF t % 2 = 0 THEN <<t \div 2>> ELSE <<t \div 2, 5>>

\* Python str "<": lexicographic, a proper prefix is smaller
RECURSIVE StrLess(_, _)
StrLess(x, y) ==
    IF y = <<>> THEN FALSE
    ELSE IF x = <<>> THEN TRUE
    ELSE IF Head(x) # Head(y) THEN Head(x) < Head(y)
    ELSE StrLess(Tail(x), Tail(y))

----------------------------------------------------------------------------
(* GrammarVersion *)

\* GrammarVersion.__init__: version_id 0 is the empty/absent id, timestamp <<>> the
\* empty/absent timestamp; uuid and now are the values str(uuid.uuid4()) and
\* datetime.now().isoformat() would return
GrammarVersion(grammar, description, created_by, version_id, timestamp, uuid, now) ==
    [grammar |-> grammar,
     description |-> description,
     created_by |-> created_by,
     version_id |-> IF version_id # 0 THEN version_id ELSE uuid,
     timestamp |-> IF timestamp # <<>> THEN timestamp ELSE now]

to_dict(v) ==
    [grammar |-> v.grammar,
     description |-> v.description,
     created_by |-> v.created_by,
     version_id |-> v.version_id,
     timestamp |-> v.timestamp]

\* from_dict passing only the text fields on to the constructor
FromDictTextOnly(data, uuid, now) ==
    GrammarVersion(data.grammar, data.description, data.created_by, 0, <<>>, uuid, now)

from_dict(data, uuid, now) ==
    GrammarVersion(data.grammar, data.description, data.created_by,
                   data.version_id, data.timestamp, uuid, now)

\* json.dump(self.to_dict(), f): the object's members in insertion order
JsonDump(d) ==
    << <<"grammar", d.grammar>>, <<"description", d.description>>,
       <<"created_by", d.created_by>>, <<"version_id", d.version_id>>,
       <<"timestamp", d.timestamp>> >>

HasKey(file, key) == \E i \in 1..Len(file) : file[i][1] = key

Get(file, key) == file[CHOOSE i \in 1..Len(file) : file[i][1] = key][2]

VersionKeys == {"grammar", "description", "created_by", "version_id", "timestamp"}

\* a file holds a version iff json.load succeeds and from_dict finds its five keys
Loadable(file) == \A key \in VersionKeys : HasKey(file, key)

\* json.load(f)
JsonLoad(file) ==
    [grammar |-> Get(file, "grammar"),
     description |-> Get(file, "description"),
     created_by |-> Get(file, "created_by"),
     version_id |-> Get(file, "version_id"),
     timestamp |-> Get(file, "timestamp")]

\* GrammarVersion.load_from_file on the content of a file: None on any exception
load_from_file(file, uuid, now) ==
    IF Loadable(file) THEN Some(from_dict(JsonLoad(file), uuid, now)) ELSE None

SaveOutcomes == {"ok", "fail", "partial"}

\* GrammarVersion.save_to_file(path): "ok" writes the record; "fail" is an exception
\* before the file is opened; "partial" is an exception after open(path, "w"),
\* which leaves a truncated file behind.  Returns False unless "ok".
WriteFile(dir, name, content) ==
    [x \in DOMAIN dir \cup {name} |-> IF x = name THEN content ELSE dir[x]]

save_to_file(dir, name, v, outcome) ==
    CASE outcome = "ok" -> WriteFile(dir, name, JsonDump(to_dict(v)))
      [] outcome = "partial" -> WriteFile(dir, name, <<>>)
      [] OTHER -> dir

\* _save_version writing every version to one fixed file name
SaveVersionFixedName(dir, v, outcome) == save_to_file(dir, 1, v, outcome)

\* GrammarManager._save_version: the file is named after the version id
_save_version(dir, v, outcome) == save_to_file(dir, v.version_id, v, outcome)

\* GrammarManager._load_version
_load_version(dir, version_id, uuid, now) ==
    IF version_id \notin DOMAIN dir THEN None
    ELSE load_from_file(dir[version_id], uuid, now)

----------------------------------------------------------------------------
(* Store queries *)

\* the orders in which versions_path.glob("*.json") may enumerate the directory
Glob(dir) ==
    {f \in [1..Cardinality(DOMAIN dir) -> DOMAIN dir] :
        \A i, j \in DOMAIN f : f[i] = f[j] => i = j}

\* the loading loop: versions.append(version) for every file that loads
RECURSIVE LoadAll(_, _, _, _)
LoadAll(dir, files, uuid, now) ==
    IF files = <<>> THEN <<>>
    ELSE load_from_file(dir[Head(files)], uuid, now) \o LoadAll(dir, Tail(files), uuid, now)

\* one step of a stable sort on key v.timestamp: v goes before the first element
\* with a greater key and after every element with an equal key
RECURSIVE InsertByTimestamp(_, _)
InsertByTimestamp(sorted, v) ==
    IF sorted = <<>> THEN <<v>>
    ELSE IF StrLess(v.timestamp, Head(sorted).timestamp) THEN <<v>> \o sorted
    ELSE <<Head(sorted)>> \o InsertByTimestamp(Tail(sorted), v)

\* the loading loop without the sort that follows it
Unsorted(versions) == versions

\* versions.sort(key=lambda v: v.timestamp)
RECURSIVE SortByTimestamp(_)
SortByTimestamp(versions) ==
    IF versions = <<>> THEN <<>>
    ELSE InsertByTimestamp(SortByTimestamp(SubSeq(versions, 1, Len(versions) - 1)),
                           versions[Len(versions)])

\* GrammarManager.get_all_versions, files being the order glob returned
get_all_versions(dir, files, uuid, now) == SortByTimestamp(LoadAll(dir, files, uuid, now))

\* GrammarManager._load_latest_version
_load_latest_version(dir, files, uuid, now) ==
    IF files = <<>> THEN None
    ELSE LET versions == LoadAll(dir, files, uuid, now)
         IN  IF versions = <<>> THEN None
             ELSE LET sorted == SortByTimestamp(versions) IN Some(sorted[Len(sorted)])

----------------------------------------------------------------------------
(* Rule merge of extend_grammar *)

\* re.finditer(r"//\s*UPDATE_RULE:\s*(\w+)\s*\|=\s*(.+)$", new_rules): the
\* directives of new_rules in textual order
RECURSIVE UpdateMatches(_)
UpdateMatches(new_rules) ==
    IF new_rules = <<>> THEN <<>>
    ELSE (IF Head(new_rules).k = "directive" THEN <<Head(new_rules)>> ELSE <<>>)
         \o UpdateMatches(Tail(new_rules))

Min(S) == CHOOSE x \in S : \A y \in S : x <= y

\* the rule names of the model that end with a rule name: "xf" ends with "f" as
\* foreach_statement ends with statement
NameEndsWith(name, rule_name) == name = rule_name \/ <<name, rule_name>> = <<"xf", "f">>

\* the text of rule_def, "?name: content" or "name: content", occurs in the text
\* of the line: behind a "?" only the name itself can stand, without it any name
\* that ends with it; the content is the start of the line's alternatives
Occurs(rule_def, line) ==
    /\ IsRule(line)
    /\ IF rule_def.q THEN line.q /\ line.n = rule_def.n
       ELSE NameEndsWith(line.n, rule_def.n)
    /\ Len(line.a) >= Len(rule_def.a)
    /\ SubSeq(line.a, 1, Len(rule_def.a)) = rule_def.a

\* the line after str.replace(rule_def, updated_rule) rewrote the occurrence in
\* it: updated_rule carries no "?", and what stood around the occurrence stays
Replaced(rule_def, line, new_option) ==
    [k |-> line.k,
     n |-> line.n,
     q |-> IF rule_def.q THEN FALSE ELSE line.q,
     a |-> rule_def.a \o new_option \o SubSeq(line.a, Len(rule_def.a) + 1, Len(line.a))]

\* one iteration of the loop over update_matches: re.search finds the first line
\* "?rule_name:" or "rule_name:", whose content runs to the end of that line;
\* updated_rule is "rule_name: content | new_option"; str.replace rewrites every
\* occurrence of the matched text
ApplyDirective(updated_grammar, match) ==
    LET found == RuleLines(updated_grammar, match.n) IN
    IF found = {} THEN updated_grammar
    ELSE LET rule_def == updated_grammar[Min(found)]
         IN  [i \in 1..Len(updated_grammar) |->
                 IF Occurs(rule_def, updated_grammar[i])
                 THEN Replaced(rule_def, updated_grammar[i], match.a)
                 ELSE updated_grammar[i]]

RECURSIVE ApplyDirectives(_, _)
ApplyDirectives(updated_grammar, matches) ==
    IF matches = <<>> THEN updated_grammar
    ELSE ApplyDirectives(ApplyDirective(updated_grammar, Head(matches)), Tail(matches))

\* new_rules appended as they are, the directive lines among them
KeepDirectives(new_rules) == new_rules

\* re.sub(r"//\s*UPDATE_RULE:.*$", "", new_rules): a directive line becomes blank
CleanedRules(new_rules) ==
    [i \in 1..Len(new_rules) |-> IF new_rules[i].k = "directive" THEN Blank ELSE new_rules[i]]

\* extended_grammar = f"{updated_grammar}\n\n// Расширение: {description}\n{cleaned_rules}"
ExtendedGrammar(current_grammar, new_rules, description) ==
    ApplyDirectives(current_grammar, UpdateMatches(new_rules))
        \o << Blank, Comment(description) >> \o CleanedRules(new_rules)

----------------------------------------------------------------------------
(* Parsing with the active parser *)

\* the statement tokens a symbol derives; depth bounds the descent through rules
RECURSIVE Derives(_, _, _)
Derives(g, sym, depth) ==
    IF sym \notin RuleNames THEN {sym}
    ELSE IF depth = 0 \/ DefLines(g, sym) = {} THEN {}
    ELSE LET r == g[Min(DefLines(g, sym))]
         IN  UNION {Derives(g, r.a[j], depth - 1) : j \in 1..Len(r.a)}

\* lark_parser.parse(code) returns a tree iff code is one or more statements of the grammar
Accepts(g, code) ==
    /\ code # <<>>
    /\ \A i \in 1..Len(code) : code[i] \in Derives(g, "start", Cardinality(RuleNames))

\* a code argument that is no str (parse(None)): the backend raises TypeError
NotAString == <<"None">>

\* lark_parser.parse(code): a tree, or the exception the backend raises; "#" is a
\* character no terminal matches, any other statement the grammar does not derive
\* is an unexpected token, and so is the end of an empty text
BackendParse(g, code) ==
    IF code = NotAString THEN "Exception"
    ELSE IF Accepts(g, code) THEN "tree"
    ELSE IF code = <<>> THEN "UnexpectedToken"
    ELSE LET bad == Min({i \in 1..Len(code) :
                            code[i] \notin Derives(g, "start", Cardinality(RuleNames))})
         IN  IF code[bad] = "#" THEN "UnexpectedCharacters" ELSE "UnexpectedToken"

\* the except clauses of GrammarManager.parse without the last one, except Exception
ParseOutcomeLeaky(backend) ==
    CASE backend = "tree" -> "tree"
      [] backend = "UnexpectedToken" -> "SyntaxError"
      [] backend = "UnexpectedCharacters" -> "SyntaxError"
      [] OTHER -> backend

\* what GrammarManager.parse hands to its caller: the tree, or the SyntaxError
\* raised in each of its three except clauses
ParseOutcome(backend) ==
    CASE backend = "tree" -> "tree"
      [] backend = "UnexpectedToken" -> "SyntaxError"
      [] backend = "UnexpectedCharacters" -> "SyntaxError"
      [] OTHER -> "SyntaxError"

----------------------------------------------------------------------------
(* Inputs *)

\* new_rule of test_grammar_manager_extend_grammar: a new rule and a directive on statement
NewRuleForeach ==
    << Comment("foreach"), IndentedRule("f", FALSE, <<"U">>), Blank, Directive("s", "f") >>

\* the fragment GrammarAgent.generate_grammar_rule returns: it defines ?statement again
NewRuleStub ==
    << IndentedRule("f", FALSE, <<"U">>), Blank, IndentedRule("s", TRUE, <<"T", "f">>) >>

\* a directive on a rule the grammar does not define
NewRuleMissing == << Directive("g", "U") >>

NewRulesInputs == {NewRuleForeach, NewRuleStub, NewRuleMissing, <<Junk>>}

InitialGrammars == {GRAMMAR_1C, <<Junk>>}

AddGrammars == {GRAMMAR_1C \o <<Comment("new")>>, <<Junk>>}

Descriptions == {"d"}

Creators == {"manual"}

Codes == {<<"T">>, <<"U">>, <<"T", "U">>}

BackupOutcomes == {"ok", "mkdir", "copy", "info"}

\* the instants datetime.now() may return when the clock last read t: the clock has
\* moved on between two readings (directories holding equal stamps are the
\* subject of SpecStore)
Now(t) == {t + 1}

----------------------------------------------------------------------------
(* State *)

\* op: the method called; arg: its arguments; ret: what the caller got back;
\* before: current_version when add_version or extend_grammar was entered
Call(op, arg, ret, before) == [op |-> op, arg |-> arg, ret |-> ret, before |-> before]

IoIdle == [pc |-> "idle"]

Init ==
    /\ store = <<>>
    /\ current_version = None
    /\ lark_parser = None
    /\ clock = 0
    /\ nextId = 1
    /\ last = Call("none", None, "none", None)
    /\ backup_dir = <<>>
    /\ backup_info = None
    /\ io = IoIdle

\* the tail of __init__: self.lark_parser = self._create_parser(...); an exception
\* leaves the process without a manager; arg is what the constructor was given
Install(version, op, arg) ==
    LET made == _create_parser(version.grammar) IN
    IF made.raised
    THEN /\ current_version' = None
         /\ lark_parser' = None
         /\ last' = Call(op, arg, "raise", None)
    ELSE /\ current_version' = Some(version)
         /\ lark_parser' = made.parser
         /\ last' = Call(op, arg, "manager", None)

\* GrammarManager.__init__(initial_grammar) with a non-empty initial_grammar
ConstructInitial(initial_grammar, outcome, t) ==
    /\ current_version = None
    /\ nextId <= MaxVersions
    /\ LET version == GrammarVersion(initial_grammar, "initial", "initialization",
                                     0, <<>>, nextId, IsoFormat(t))
       IN  /\ store' = _save_version(store, version, outcome)
           /\ Install(version, "init", [initial_grammar |-> Some(initial_grammar)])
    /\ nextId' = nextId + 1
    /\ clock' = t
    /\ UNCHANGED <<backup_dir, backup_info, io>>

\* GrammarManager.__init__() without initial_grammar: the latest stored version,
\* else the base grammar file, else the placeholder grammar
ConstructDefaultBody(files, base_exists, outcome, t, op, arg) ==
    LET latest == _load_latest_version(store, files, nextId, IsoFormat(clock)) IN
    IF latest # None
    THEN /\ Install(latest[1], op, arg)
         /\ UNCHANGED <<store, nextId, clock>>
    ELSE /\ nextId <= MaxVersions
         /\ LET base_grammar == IF base_exists THEN BaseGrammarFile ELSE PlaceholderGrammar
                version == GrammarVersion(base_grammar, "base", "initialization",
                                          0, <<>>, nextId, IsoFormat(t))
            IN  /\ store' = _save_version(store, version, outcome)
                /\ Install(version, op, arg)
         /\ nextId' = nextId + 1
         /\ clock' = t

ConstructDefault(files, base_exists, outcome, t) ==
    /\ current_version = None
    /\ ConstructDefaultBody(files, base_exists, outcome, t, "init",
                            [initial_grammar |-> None, base_exists |-> base_exists])
    /\ UNCHANGED <<backup_dir, backup_info, io>>

\* the process ends; the version store stays on disk
Restart ==
    /\ current_version # None
    /\ current_version' = None
    /\ lark_parser' = None
    /\ last' = Call("exit", None, "none", None)
    /\ UNCHANGED <<store, clock, nextId, backup_dir, backup_info, io>>

\* body of add_version; op, returned and raised name the caller's view of it
AddVersionBody(grammar, description, created_by, outcome, t, op, arg, returned, raised) ==
    LET new_version == GrammarVersion(grammar, description, created_by,
                                      0, <<>>, nextId, IsoFormat(t))
        made == _create_parser(new_version.grammar)
    IN  /\ store' = _save_version(store, new_version, outcome)
        /\ current_version' = Some(new_version)
        /\ lark_parser' = IF made.raised THEN lark_parser ELSE made.parser
        /\ last' = Call(op, arg, IF made.raised THEN raised ELSE returned, current_version)
        /\ nextId' = nextId + 1
        /\ clock' = t

\* GrammarManager.add_version
add_version(grammar, description, created_by, outcome, t) ==
    /\ current_version # None
    /\ nextId <= MaxVersions
    /\ AddVersionBody(grammar, description, created_by, outcome, t,
                      "add_version", grammar, "version", "raise")
    /\ UNCHANGED <<backup_dir, backup_info, io>>

\* extend_grammar without the trial compilation of extended_grammar
ExtendGrammarUnchecked(new_rules, description, created_by, outcome, t) ==
    /\ current_version # None
    /\ nextId <= MaxVersions
    /\ AddVersionBody(ExtendedGrammar(current_version[1].grammar, new_rules, description),
                      description, created_by, outcome, t,
                      "extend_grammar", <<new_rules, description>>, "True", "False")
    /\ UNCHANGED <<backup_dir, backup_info, io>>

\* GrammarManager.extend_grammar
extend_grammar(new_rules, description, created_by, outcome, t) ==
    /\ current_version # None
    /\ nextId <= MaxVersions
    /\ LET extended_grammar ==
               ExtendedGrammar(current_version[1].grammar, new_rules, description)
       IN  IF _create_parser(extended_grammar).raised
           THEN /\ last' = Call("extend_grammar", <<new_rules, description>>, "False", None)
                /\ UNCHANGED <<store, current_version, lark_parser, nextId, clock>>
           ELSE AddVersionBody(extended_grammar, description, created_by, outcome, t,
                               "extend_grammar", <<new_rules, description>>,
                               "True", "False")
    /\ UNCHANGED <<backup_dir, backup_info, io>>

\* GrammarManager.rollback_to_version
rollback_to_version(version_id) ==
    /\ current_version # None
    /\ LET version == _load_version(store, version_id, nextId, IsoFormat(clock)) IN
       IF version = None
       THEN /\ last' = Call("rollback_to_version", version_id, "False", None)
            /\ UNCHANGED <<current_version, lark_parser>>
       ELSE LET made == _create_parser(version[1].grammar) IN
            /\ current_version' = version
            /\ lark_parser' = IF made.raised THEN lark_parser ELSE made.parser
            /\ last' = Call("rollback_to_version", version_id,
                            IF made.raised THEN "False" ELSE "True", None)
    /\ UNCHANGED <<store, clock, nextId, backup_dir, backup_info, io>>

\* GrammarManager.parse: a tree, or SyntaxError for every failure of the backend
parse(code) ==
    /\ current_version # None
    /\ last' = Call("parse", code, ParseOutcome(BackendParse(lark_parser[1], code)), None)
    /\ UNCHANGED <<store, current_version, lark_parser, clock, nextId,
                   backup_dir, backup_info, io>>

\* body of backup_all_versions with the manifest counting itself as a version
BackupCountsManifest(files, outcome, k) ==
    /\ LET copied == CASE outcome = "mkdir" -> 0
                       [] outcome = "copy" -> k - 1
                       [] OTHER -> Len(files)
       IN  backup_dir' = [x \in DOMAIN backup_dir \cup {files[i] : i \in 1..copied} |->
                             IF \E i \in 1..copied : files[i] = x THEN store[x]
                             ELSE backup_dir[x]]
    /\ backup_info' =
           CASE outcome = "ok" ->
                    Some([backup_timestamp |-> IsoFormat(clock),
                          versions_count |-> Len(files) + 1,
                          current_version_id |-> current_version[1].version_id])
             [] outcome = "info" -> Some([backup_timestamp |-> <<>>,
                                          versions_count |-> 0 - 1,
                                          current_version_id |-> 0])
             [] OTHER -> backup_info
    /\ last' = Call("backup_all_versions", None,
                    CASE outcome = "ok" -> "True"
                      [] outcome = "mkdir" -> "raise"
                      [] OTHER -> "False",
                    None)
    /\ UNCHANGED <<store, current_version, lark_parser, clock, nextId>>

\* body of backup_all_versions counting the records of the target, a manifest of
\* an earlier backup among them, instead of the files it copied
BackupCountsTarget(files, outcome, k) ==
    /\ LET copied == CASE outcome = "mkdir" -> 0
                       [] outcome = "copy" -> k - 1
                       [] OTHER -> Len(files)
       IN  backup_dir' = [x \in DOMAIN backup_dir \cup {files[i] : i \in 1..copied} |->
                             IF \E i \in 1..copied : files[i] = x THEN store[x]
                             ELSE backup_dir[x]]
    /\ backup_info' =
           CASE outcome = "ok" ->
                    Some([backup_timestamp |-> IsoFormat(clock),
                          versions_count |-> Len(files) + Len(backup_info),
                          current_version_id |-> current_version[1].version_id])
             [] outcome = "info" -> Some([backup_timestamp |-> <<>>,
                                          versions_count |-> 0 - 1,
                                          current_version_id |-> 0])
             [] OTHER -> backup_info
    /\ last' = Call("backup_all_versions", None,
                    CASE outcome = "ok" -> "True"
                      [] outcome = "mkdir" -> "raise"
                      [] OTHER -> "False",
                    None)
    /\ UNCHANGED <<store, current_version, lark_parser, clock, nextId>>

\* body of backup_all_versions: mkdir (outside the try), copy every file in glob
\* order, write backup_info.json; "copy" fails at file number k, "info" fails
\* writing the manifest
BackupBody(files, outcome, k) ==
    /\ LET copied == CASE outcome = "mkdir" -> 0
                       [] outcome = "copy" -> k - 1
                       [] OTHER -> Len(files)
       IN  backup_dir' = [x \in DOMAIN backup_dir \cup {files[i] : i \in 1..copied} |->
                             IF \E i \in 1..copied : files[i] = x THEN store[x]
                             ELSE backup_dir[x]]
    /\ backup_info' =
           CASE outcome = "ok" ->
                    Some([backup_timestamp |-> IsoFormat(clock),
                          versions_count |-> Len(files),
                          current_version_id |-> current_version[1].version_id])
             [] outcome = "info" -> Some([backup_timestamp |-> <<>>,
                                          versions_count |-> 0 - 1,
                                          current_version_id |-> 0])
             [] OTHER -> backup_info
    /\ last' = Call("backup_all_versions", None,
                    CASE outcome = "ok" -> "True"
                      [] outcome = "mkdir" -> "raise"
                      [] OTHER -> "False",
                    None)
    /\ UNCHANGED <<store, current_version, lark_parser, clock, nextId>>

\* GrammarManager.backup_all_versions into a target that holds nothing yet
backup_all_versions(files, outcome, k) ==
    /\ current_version # None
    /\ backup_dir = <<>> /\ backup_info = None
    /\ BackupBody(files, outcome, k)
    /\ UNCHANGED io

Next ==
    \/ \E g \in InitialGrammars, o \in SaveOutcomes, t \in Now(clock) :
           ConstructInitial(g, o, t)
    \/ \E files \in Glob(store), b \in BOOLEAN, o \in SaveOutcomes, t \in Now(clock) :
           ConstructDefault(files, b, o, t)
    \/ Restart
    \/ \E g \in AddGrammars, d \in Descriptions, c \in Creators,
          o \in SaveOutcomes, t \in Now(clock) : add_version(g, d, c, o, t)
    \/ \E r \in NewRulesInputs, d \in Descriptions, c \in Creators,
          o \in SaveOutcomes, t \in Now(clock) : extend_grammar(r, d, c, o, t)
    \/ \E id \in 1..(MaxVersions + 1) : rollback_to_version(id)
    \/ \E code \in Codes : parse(code)
    \/ \E files \in Glob(store), o \in BackupOutcomes :
           \E k \in (IF o = "copy" THEN 1..Len(files) ELSE {0}) :
               backup_all_versions(files, o, k)

Spec == Init /\ [][Next]_vars

----------------------------------------------------------------------------
(* Properties of the manager *)

\* the ids whose record in a directory loads as a version
VersionIds(dir) == {id \in DOMAIN dir : Loadable(dir[id])}

Succeeded(call) ==
    \/ call.op = "add_version" /\ call.ret = "version"
    \/ call.op = "extend_grammar" /\ call.ret = "True"

\* C1: extend_grammar is all-or-nothing: when the merged candidate does not compile
\* the call returns False and leaves current_version, the parser and the store as
\* they were.
ExtendAllOrNothing ==
    [][(/\ last'.op = "extend_grammar"
        /\ current_version # None
        /\ ~Compiles(ExtendedGrammar(current_version[1].grammar, last'.arg[1], last'.arg[2])))
       => (/\ last'.ret = "False"
           /\ current_version' = current_version
           /\ lark_parser' = lark_parser
           /\ store' = store)]_vars

\* C1 witness: an extension whose candidate did not compile was refused while a
\* version was stored
ExtendRefused ==
    /\ last.op = "extend_grammar" /\ last.ret = "False"
    /\ current_version # None /\ VersionIds(store) # {}
    /\ ~Compiles(ExtendedGrammar(current_version[1].grammar, last.arg[1], last.arg[2]))

\* C2: in every state of a constructed manager the active parser is the one
\* compiled from current_version.grammar.
ParserInSync ==
    current_version # None => lark_parser = Some(current_version[1].grammar)

\* C3: in every state current_version is a version whose record is in the store.
CurrentInStore ==
    current_version # None =>
        _load_version(store, current_version[1].version_id, 0, <<>>) = current_version

\* C4: add_version with a grammar text that does not compile changes neither
\* current_version nor the store, so current_version always compiles.
AddVersionRejectsInvalid ==
    [][(last'.op = "add_version" /\ ~Compiles(last'.arg))
       => (current_version' = current_version /\ store' = store)]_vars

\* C5: a rollback_to_version that returns False leaves current_version and the
\* parser as they were.
FailedRollbackUntouched ==
    [][(last'.op = "rollback_to_version" /\ last'.ret = "False")
       => (current_version' = current_version /\ lark_parser' = lark_parser)]_vars

\* C6: after a successful add_version or extend_grammar entered with V current,
\* rollback_to_version(V.version_id) returns True and makes V current again, with
\* the parser compiled from V's grammar.
RollbackUndoesExtension ==
    [][(/\ Succeeded(last)
        /\ last.before # None
        /\ last'.op = "rollback_to_version"
        /\ last'.arg = last.before[1].version_id)
       => (/\ last'.ret = "True"
           /\ current_version' = last.before
           /\ lark_parser' = Some(last.before[1].grammar))]_vars

\* C7: a successful add_version or extend_grammar adds exactly one version record,
\* under an id no stored record had, and that record is current_version.
SuccessAddsOneVersion ==
    [][Succeeded(last')
       => (/\ Cardinality(VersionIds(store')) = Cardinality(VersionIds(store)) + 1
           /\ current_version' # None
           /\ current_version'[1].version_id \notin DOMAIN store
           /\ current_version'[1].version_id \in VersionIds(store')
           /\ _load_version(store', current_version'[1].version_id, 0, <<>>)
                  = current_version')]_vars

\* C8: no file of the store is ever deleted and the content of a stored file
\* never changes, whatever the manager is asked to do.
StoreMonotone ==
    [][\A id \in DOMAIN store : id \in DOMAIN store' /\ store'[id] = store[id]]_vars

\* C8 witness: two versions are stored and a backup has been taken of them
StoreKeptAcrossCalls ==
    /\ Cardinality(VersionIds(store)) = 2
    /\ last.op = "backup_all_versions" /\ last.ret = "True"
    /\ DOMAIN backup_dir = DOMAIN store

\* a version created by the constructor: built from the text, tagged
\* "initialization", under an id the store did not hold, and saved in the store
NewInitialization(version, text, before, after) ==
    /\ version.grammar = text
    /\ version.created_by = "initialization"
    /\ version.version_id \notin DOMAIN before
    /\ _load_version(after, version.version_id, 0, <<>>) = Some(version)

\* C14: when the constructor returns, current_version is defined and the parser is
\* compiled from it; current_version is a new saved "initialization" version of the
\* supplied initial grammar, else the latest stored version with nothing written,
\* else a new saved "initialization" version of the base grammar file, or of the
\* placeholder grammar when there is no base file.
InitializationPriority ==
    [][(last'.op = "init" /\ last'.ret = "manager")
       => (/\ current_version' # None
           /\ lark_parser' = Some(current_version'[1].grammar)
           /\ IF last'.arg.initial_grammar # None
              THEN NewInitialization(current_version'[1], last'.arg.initial_grammar[1],
                                     store, store')
              ELSE IF VersionIds(store) # {}
              THEN /\ store' = store
                   /\ \E id \in VersionIds(store) :
                          current_version' = _load_version(store, id, 0, <<>>)
                   /\ \A id \in VersionIds(store) :
                          ~StrLess(current_version'[1].timestamp,
                                   _load_version(store, id, 0, <<>>)[1].timestamp)
              ELSE NewInitialization(current_version'[1],
                                     IF last'.arg.base_exists THEN BaseGrammarFile
                                     ELSE PlaceholderGrammar,
                                     store, store'))]_vars

\* C11: no persistence operation raises: backup_all_versions returns True or False,
\* also when the target directory cannot be created or a copy fails.
PersistenceNeverRaises ==
    last.op = "backup_all_versions" => last.ret \in {"True", "False"}

\* C12: a backup_all_versions that returns True on an empty target leaves there one
\* copy of every record of the store and a manifest whose versions_count is the
\* number of records and whose current_version_id is current_version's id.
BackupCopiesEveryRecord ==
    [][(/\ last'.op = "backup_all_versions" /\ last'.ret = "True"
        /\ backup_dir = <<>> /\ backup_info = None)
       => (/\ backup_dir' = store
           /\ backup_info' # None
           /\ Cardinality(DOMAIN backup_dir') + Len(backup_info') = Cardinality(DOMAIN store) + 1
           /\ backup_info'[1].versions_count = Cardinality(DOMAIN store)
           /\ backup_info'[1].current_version_id = current_version[1].version_id)]_vars

\* C12 witness: a backup of a store of two records, the current one among them,
\* returned True
BackupTaken ==
    /\ last.op = "backup_all_versions" /\ last.ret = "True"
    /\ Cardinality(DOMAIN store) = 2 /\ backup_dir = store
    /\ backup_info # None /\ backup_info[1].versions_count = 2
    /\ current_version # None
    /\ backup_info[1].current_version_id = current_version[1].version_id

----------------------------------------------------------------------------
(* The version store on its own: GrammarVersion file round trip and the store
   queries, over directories of arbitrary content *)

\* what a file of the directory may hold: 0 no file, 1 a truncated file, 2 a JSON
\* object that is no version (backup_info.json), 3.. a version stamped IsoFormat(k - 3)
FileKinds == 0..(MaxStamp + 3)

ManifestFile ==
    << <<"backup_timestamp", IsoFormat(0)>>, <<"versions_count", 0>>,
       <<"current_version_id", 0>> >>

FileOfKind(id, kind) ==
    CASE kind = 1 -> <<>>
      [] kind = 2 -> ManifestFile
      [] OTHER -> JsonDump(to_dict(GrammarVersion(GRAMMAR_1C, "d", "manual", id,
                                                  IsoFormat(kind - 3), 0, <<>>)))

MakeStore(kinds) ==
    [id \in {x \in DOMAIN kinds : kinds[x] # 0} |-> FileOfKind(id, kinds[id])]

\* values uuid4() and now() return that no stored record carries
FreshId == MaxFiles + 1

FreshStamp == IsoFormat(MaxStamp + 1)

InitStore ==
    /\ \E kinds \in [1..MaxFiles -> FileKinds] : store = MakeStore(kinds)
    /\ current_version = None
    /\ lark_parser = None
    /\ clock = 0
    /\ nextId = 1
    /\ last = Call("none", None, "none", None)
    /\ backup_dir = <<>>
    /\ backup_info = None
    /\ io = IoIdle

\* get_all_versions() on the directory, glob enumerating it as files
ListAll(files) ==
    /\ io.pc = "idle"
    /\ io' = [pc |-> "listed", out |-> get_all_versions(store, files, FreshId, FreshStamp)]
    /\ UNCHANGED <<store, current_version, lark_parser, clock, nextId, last,
                   backup_dir, backup_info>>

\* _load_latest_version() on the directory, glob enumerating it as files
LoadLatest(files) ==
    /\ io.pc = "idle"
    /\ io' = [pc |-> "latest",
              out |-> _load_latest_version(store, files, FreshId, FreshStamp)]
    /\ UNCHANGED <<store, current_version, lark_parser, clock, nextId, last,
                   backup_dir, backup_info>>

\* v = GrammarVersion(...); v.save_to_file(versions_path / f"{v.version_id}.json");
\* GrammarVersion.load_from_file(that path); GrammarVersion.from_dict(v.to_dict())
SaveLoad(grammar, description, created_by, version_id, timestamp, outcome) ==
    /\ io.pc = "idle"
    /\ LET v == GrammarVersion(grammar, description, created_by, version_id, timestamp,
                               nextId, IsoFormat(clock))
           written == _save_version(store, v, outcome)
       IN  /\ store' = written
           /\ io' = [pc |-> "saved",
                     v |-> v,
                     saved |-> outcome = "ok",
                     loaded |-> _load_version(written, v.version_id, FreshId, FreshStamp),
                     copy |-> from_dict(to_dict(v), FreshId, FreshStamp)]
    /\ UNCHANGED <<current_version, lark_parser, clock, nextId, last,
                   backup_dir, backup_info>>

NextStore ==
    \/ \E files \in Glob(store) : ListAll(files)
    \/ \E files \in Glob(store) : LoadLatest(files)
    \/ \E g \in {<<>>, GRAMMAR_1C}, d \in {"", "d"}, c \in Creators,
          id \in 0..MaxFiles, ts \in {<<>>} \cup {IsoFormat(k) : k \in 0..MaxStamp},
          o \in SaveOutcomes : SaveLoad(g, d, c, id, ts, o)

SpecStore == InitStore /\ [][NextStore]_vars

\* the version a file of the directory loads as
Stored(dir, id) == load_from_file(dir[id], FreshId, FreshStamp)[1]

\* C9: a version that was saved loads again equal in all five fields, and
\* from_dict(to_dict(v)) equals v in all five fields.
RoundTrip ==
    io.pc = "saved" =>
        /\ \A field \in VersionKeys : io.copy[field] = io.v[field]
        /\ io.saved => /\ io.loaded # None
                       /\ \A field \in VersionKeys : io.loaded[1][field] = io.v[field]

\* C9 witness: a version created without id and timestamp was saved and loaded
RoundTripDone ==
    /\ io.pc = "saved" /\ io.saved /\ io.loaded # None
    /\ io.v.version_id = nextId /\ io.v.timestamp = IsoFormat(clock)

\* C10: get_all_versions returns every loadable record once, in ascending order of
\* timestamp, and _load_latest_version returns a loadable record of maximal
\* timestamp, or None when no record loads.
StoreQueries ==
    /\ io.pc = "listed" =>
          /\ Len(io.out) = Cardinality(VersionIds(store))
          /\ \A id \in VersionIds(store) : \E i \in 1..Len(io.out) : io.out[i] = Stored(store, id)
          /\ \A i \in 1..(Len(io.out) - 1) :
                 ~StrLess(io.out[i + 1].timestamp, io.out[i].timestamp)
    /\ io.pc = "latest" =>
          IF VersionIds(store) = {} THEN io.out = None
          ELSE /\ io.out # None
               /\ \E id \in VersionIds(store) : io.out[1] = Stored(store, id)
               /\ \A id \in VersionIds(store) :
                      ~StrLess(io.out[1].timestamp, Stored(store, id).timestamp)

\* C10 witness: three versions stamped T1 < T2 < T3, stored out of order, and the
\* latest one was asked for
LatestOfThree ==
    /\ io.pc = "latest" /\ io.out # None
    /\ VersionIds(store) = 1..3
    /\ StrLess(Stored(store, 2).timestamp, Stored(store, 3).timestamp)
    /\ StrLess(Stored(store, 3).timestamp, Stored(store, 1).timestamp)
    /\ io.out[1] = Stored(store, 1)

\* C25: when stored versions have equal timestamps the latest-version query
\* returns the same one of them, the one inserted last, in whatever order the
\* directory enumerates its records.
LatestTieIndependent ==
    (io.pc = "latest")
        => \A files \in Glob(store) :
               _load_latest_version(store, files, FreshId, FreshStamp) = io.out

----------------------------------------------------------------------------
(* Repeated backups of one versions directory into one target *)

\* what a file of the versions directory holds at first: 0 no file, 3 a version
\* (a failed save adds a truncated file)
BackupFileKinds == {0, 3}

\* one order in which glob may enumerate the files S; a copy that fails leaves
\* the files enumerated before it in the target, whatever their order
RECURSIVE Enumerate(_)
Enumerate(S) ==
    IF S = {} THEN <<>>
    ELSE LET x == CHOOSE y \in S : TRUE IN <<x>> \o Enumerate(S \ {x})

\* a manager whose current version is one of the stored versions, and a target
\* that holds nothing yet
InitBackup ==
    /\ \E kinds \in [1..MaxFiles -> BackupFileKinds] :
           /\ store = MakeStore(kinds)
           /\ \E id \in VersionIds(store) :
                  /\ current_version = Some(Stored(store, id))
                  /\ lark_parser = Some(Stored(store, id).grammar)
    /\ clock = 0
    /\ nextId = FreshId
    /\ last = Call("none", None, "none", None)
    /\ backup_dir = <<>>
    /\ backup_info = None
    /\ io = IoIdle

\* backup_all_versions(backup_dir) on the same target as before; io keeps what the
\* last backup that returned True left there, and whether it was a repeated one
BackupAgain(files, outcome, k) ==
    /\ current_version # None
    /\ BackupBody(files, outcome, k)
    /\ io' = IF outcome = "ok"
             THEN [pc |-> "backed",
                   versions_count |-> backup_info'[1].versions_count,
                   ids |-> DOMAIN backup_dir',
                   repeated |-> io.pc = "backed"]
             ELSE io

\* add_version between two backups: the next backup is no repetition
AddBetween(grammar, description, created_by, outcome, t) ==
    /\ current_version # None
    /\ nextId <= FreshId + MaxAdds - 1
    /\ AddVersionBody(grammar, description, created_by, outcome, t,
                      "add_version", grammar, "version", "raise")
    /\ io' = IoIdle
    /\ UNCHANGED <<backup_dir, backup_info>>

NextBackup ==
    \/ \E o \in BackupOutcomes \ {"copy"} : BackupAgain(Enumerate(DOMAIN store), o, 0)
    \/ \E S \in (SUBSET DOMAIN store) \ {DOMAIN store} :
           BackupAgain(Enumerate(S) \o Enumerate(DOMAIN store \ S), "copy",
                       Cardinality(S) + 1)
    \/ \E g \in {x \in AddGrammars : Compiles(x)}, d \in Descriptions, c \in Creators,
          o \in SaveOutcomes, t \in Now(clock) : AddBetween(g, d, c, o, t)
    \/ \E id \in 1..FreshId : rollback_to_version(id)

SpecBackup == InitBackup /\ [][NextBackup]_vars

\* C13: a backup_all_versions that returns True after an earlier one on the same
\* target returned True, no version added in between, writes a manifest with the
\* same versions_count and leaves the same set of ids in the target.
BackupIdempotent ==
    [][(/\ io.pc = "backed"
        /\ last'.op = "backup_all_versions" /\ last'.ret = "True"
        /\ io'.pc = "backed")
       => (/\ backup_info'[1].versions_count = io.versions_count
           /\ DOMAIN backup_dir' = io.ids
           /\ io'.ids = io.ids)]_vars

\* C13 witness: a second backup of at least two records returned True, no version
\* added since the one before
BackupRepeated ==
    /\ io.pc = "backed" /\ io.repeated
    /\ last.op = "backup_all_versions" /\ last.ret = "True"
    /\ Cardinality(io.ids) >= 2
    /\ backup_info[1].versions_count = io.versions_count

----------------------------------------------------------------------------
(* The rule merge of extend_grammar on its own: the candidate text computed from
   a grammar and a fragment of new rules *)

SeqsUpTo(S, n) == UNION {[1..k -> S] : k \in 0..n}

\* the lines a current grammar is made of: rules at the start of a line, and the
\* indented rule an earlier extension appended
GrammarLines ==
    {Rule("start", FALSE, <<"s">>), Rule("s", TRUE, <<"T">>), Rule("s", TRUE, <<"T", "f">>),
     Rule("f", FALSE, <<"U">>), IndentedRule("f", FALSE, <<"U">>), Comment("c"),
     Rule("xf", FALSE, <<"U">>), Rule("start", FALSE, <<"f">>)}

\* the current grammars: texts that compile
MergeGrammars == {g \in SeqsUpTo(GrammarLines, MaxLines) : Compiles(g)}

NewRuleLines ==
    {Directive("s", "f"), Directive("s", "U"), Directive("f", "T"), Directive("g", "U"),
     IndentedRule("f", FALSE, <<"U">>), Comment("c")}

MergeNewRules == SeqsUpTo(NewRuleLines, MaxNewLines)

InitMerge ==
    /\ store = <<>>
    /\ current_version = None
    /\ lark_parser = None
    /\ clock = 0
    /\ nextId = 1
    /\ last = Call("none", None, "none", None)
    /\ backup_dir = <<>>
    /\ backup_info = None
    /\ \E g \in MergeGrammars, r \in MergeNewRules :
           io = [pc |-> "merge", grammar |-> g, new_rules |-> r]

\* extend_grammar up to the candidate text: the loop over the directives, the
\* cleaning of new_rules and the composition of extended_grammar
Merge(description) ==
    /\ io.pc = "merge"
    /\ io' = [pc |-> "merged", grammar |-> io.grammar, new_rules |-> io.new_rules,
              description |-> description,
              out |-> ExtendedGrammar(io.grammar, io.new_rules, description)]
    /\ UNCHANGED <<store, current_version, lark_parser, clock, nextId, last,
                   backup_dir, backup_info>>

NextMerge == \E d \in Descriptions : Merge(d)

SpecMerge == InitMerge /\ [][NextMerge]_vars

\* the new options of the directives on a rule, in the order of the directives
RECURSIVE OptionsFor(_, _)
OptionsFor(matches, name) ==
    IF matches = <<>> THEN <<>>
    ELSE (IF Head(matches).n = name THEN Head(matches).a ELSE <<>>)
         \o OptionsFor(Tail(matches), name)

\* the alternatives of the definition Lark reads for a rule
Alternatives(g, name) == g[Min(DefLines(g, name))].a

\* C15: in a candidate that compiles, every rule the grammar defines and some
\* directive of new_rules names has its previous alternatives followed by the new
\* options of its directives, in the order of the directives.
DirectiveMerge ==
    (io.pc = "merged" /\ Compiles(io.out)) =>
        \A n \in RuleNames :
            (/\ DefLines(io.grammar, n) # {}
             /\ OptionsFor(UpdateMatches(io.new_rules), n) # <<>>)
            => (/\ DefLines(io.out, n) # {}
                /\ Alternatives(io.out, n) =
                       Alternatives(io.grammar, n) \o OptionsFor(UpdateMatches(io.new_rules), n))

\* C16: a directive on a rule the grammar does not define changes no line of the
\* grammar: lines differ from the grammar's only where they define a rule whose
\* name is, or ends with, the name in a directive; the candidate is the merged grammar, an empty line, the comment
\* line of the description and new_rules with every directive line blanked; and
\* no directive line stands in the candidate.
UndefinedTargetIsNoOp ==
    io.pc = "merged" =>
        LET g == io.grammar
            r == io.new_rules
            out == io.out
            targets == {r[i].n : i \in {x \in 1..Len(r) : r[x].k = "directive"}}
        IN  /\ Len(out) = Len(g) + 2 + Len(r)
            /\ \A i \in 1..Len(g) :
                   out[i] # g[i]
                       => (IsRule(g[i]) /\ \E n \in targets : NameEndsWith(g[i].n, n))
            /\ (\A n \in targets : DefLines(g, n) = {}) => SubSeq(out, 1, Len(g)) = g
            /\ out[Len(g) + 1] = Blank
            /\ out[Len(g) + 2] = Comment(io.description)
            /\ \A i \in 1..Len(r) :
                   out[Len(g) + 2 + i] = IF r[i].k = "directive" THEN Blank ELSE r[i]
            /\ \A i \in 1..Len(out) : out[i].k # "directive"

\* C16 witness: new_rules held a new rule and a directive on a rule the grammar
\* does not define, and the candidate compiles
DirectiveSkipped ==
    /\ io.pc = "merged" /\ Compiles(io.out)
    /\ \E i \in 1..Len(io.new_rules) :
           /\ io.new_rules[i].k = "directive"
           /\ DefLines(io.grammar, io.new_rules[i].n) = {}
    /\ \E i \in 1..Len(io.new_rules) : IsRule(io.new_rules[i])
    /\ SubSeq(io.out, 1, Len(io.grammar)) = io.grammar

\* C29: a directive changes only the definition of the rule it names: every other
\* line of the grammar is the same after the merge, the rules whose names end with
\* that name among them, and the definition keeps its leading "?".
DirectiveChangesOnlyTarget ==
    (io.pc = "merged") =>
        LET g == io.grammar
            r == io.new_rules
            out == io.out
            targets == {r[i].n : i \in {x \in 1..Len(r) : r[x].k = "directive"}}
        IN  \A i \in 1..Len(g) :
                /\ out[i] # g[i] => (IsRule(g[i]) /\ g[i].n \in targets)
                /\ out[i].k = g[i].k /\ out[i].n = g[i].n /\ out[i].q = g[i].q

----------------------------------------------------------------------------
(* Parser.parse: the manager's parse, and on a failure the agents that may extend
   the grammar *)

\* max_correction_attempts as Parser.parse is given it: left out, 0 or 1
AttemptBounds == {None, Some(0), Some(1)}

\* the description process_unknown_construct gives its extension
AgentDescription == "auto"

\* a directive that adds to statement a rule nobody defines
NewRuleDangling == << Directive("s", "g") >>

\* what generate_grammar_rule returns: None or a fragment of grammar text
Proposals == {None, Some(NewRuleForeach), Some(NewRuleDangling), Some(<<Junk>>)}

ParserCodes == Codes \cup {<<"#">>, NotAString}

\* the codes given to Parser.parse: one the base grammar accepts, one it accepts
\* only after the extension by NewRuleForeach, and one no extension makes parse
LoopCodes == {<<"T">>, <<"U">>, <<"#">>}

\* GrammarAgent.validate_grammar_rule: the current grammar and the fragment as it
\* is, directives unmerged, must compile and parse "Перем x;"
validate_grammar_rule(current_grammar, new_rule) ==
    LET combined_grammar == current_grammar \o << Blank, Comment("new rule") >> \o new_rule
    IN  /\ Compiles(combined_grammar)
        /\ BackendParse(combined_grammar, <<"T">>) = "tree"

\* process_unknown_construct handing every validated fragment to add_version,
\* the candidate not compiled first
ProcessUnknownUnchecked(current_grammar, new_rule) ==
    IF new_rule = None THEN None
    ELSE IF ~validate_grammar_rule(current_grammar, new_rule[1]) THEN None
    ELSE Some(ExtendedGrammar(current_grammar, new_rule[1], AgentDescription))

\* GrammarAgent.process_unknown_construct up to the commit: the candidate that
\* extend_grammar hands to add_version, or None when the agent returns False
\* (no fragment, validation failed, or the candidate does not compile)
process_unknown_construct(current_grammar, new_rule) ==
    IF new_rule = None THEN None
    ELSE IF ~validate_grammar_rule(current_grammar, new_rule[1]) THEN None
    ELSE LET extended_grammar ==
                 ExtendedGrammar(current_grammar, new_rule[1], AgentDescription)
         IN  IF _create_parser(extended_grammar).raised THEN None
             ELSE Some(extended_grammar)

\* AgentCoordinator.process_parse_error
process_parse_error(enabled, current_grammar, new_rule) ==
    IF ~enabled THEN None
    ELSE process_unknown_construct(current_grammar, new_rule)

\* Parser.parse(code, max_correction_attempts). The bound is computed and never
\* read again. A failed parse with the agents off, or with process_parse_error
\* returning False, raises SyntaxError. When process_parse_error returns True the
\* condition goes on to correction_result.get("success", False) on that bool: the
\* AttributeError is raised inside the except clause and leaves Parser.parse, so
\* "correction_attempts += 1; continue" is never reached.
ParserParseBody(code, enabled, max_tokens, new_rule, outcome, t, op, arg, results) ==
    LET tree == ParseOutcome(BackendParse(lark_parser[1], code))
        correction == IF max_tokens > 0 /\ enabled
                      THEN process_parse_error(enabled, current_version[1].grammar, new_rule)
                      ELSE None
    IN  IF tree = "tree" \/ correction = None
        THEN /\ last' = Call(op, arg, IF tree = "tree" THEN results.tree ELSE results.syntax,
                             None)
             /\ UNCHANGED <<store, current_version, lark_parser, nextId, clock>>
        ELSE /\ nextId <= MaxVersions
             /\ AddVersionBody(correction[1], AgentDescription, "manual", outcome, t,
                               op, arg, results.attribute, results.syntax)

\* str(e) of the SyntaxError GrammarManager.parse raised for the backend's failure
Diagnostic(backend) == <<"message", backend>>

\* self.agent_coordinator.process_parse_error(code, str(e)): the two positional
\* arguments bind to the parameters (error, code_snippet) in that order
ProcessParseErrorCall(code, message) == [error |-> code, code_snippet |-> message]

\* analyze_parse_error(code=code_snippet, error=error) and
\* process_unknown_construct(code=code_snippet, error=error): what the agent and
\* its rule generation are given
AnalyzeCall(call) == [code |-> call.code_snippet, error |-> call.error]

\* what the agent is given in a call of Parser.parse, None when it is not asked
Handed(code, enabled, max_tokens) ==
    LET backend == BackendParse(lark_parser[1], code) IN
    IF backend # "tree" /\ max_tokens > 0 /\ enabled
    THEN Some(AnalyzeCall(ProcessParseErrorCall(code, Diagnostic(backend))))
    ELSE None

\* what Parser.parse hands to its caller
ParseResults == [tree |-> "tree", syntax |-> "SyntaxError", attribute |-> "AttributeError"]

Parser_parse(code, use_agents, max_tokens, max_correction_attempts, new_rule, outcome, t) ==
    /\ current_version # None
    /\ LET bound == IF max_correction_attempts = None THEN max_tokens
                    ELSE max_correction_attempts[1]
           arg == [code |-> code, use_agents |-> use_agents, max_tokens |-> max_tokens,
                   bound |-> bound, new_rule |-> new_rule,
                   handed |-> Handed(code, use_agents, max_tokens)]
       IN  ParserParseBody(code, use_agents, max_tokens, new_rule, outcome, t,
                           "Parser.parse", arg, ParseResults)
    /\ UNCHANGED <<backup_dir, backup_info, io>>

\* the settings under which Parser.parse leaves the agents alone
AgentsOff == {<<FALSE, 0>>, <<FALSE, 2000>>, <<TRUE, 0>>}

NextParser ==
    \/ \E g \in InitialGrammars, t \in Now(clock) : ConstructInitial(g, "ok", t)
    \/ \E files \in Glob(store), b \in BOOLEAN, t \in Now(clock) :
           ConstructDefault(files, b, "ok", t)
    \/ Restart
    \/ \E code \in ParserCodes : parse(code)
    \/ \E code \in LoopCodes, off \in AgentsOff, r \in {None, Some(NewRuleForeach)},
          t \in Now(clock) : Parser_parse(code, off[1], off[2], None, r, "ok", t)
    \/ \E code \in LoopCodes, n \in AttemptBounds, r \in Proposals,
          o \in SaveOutcomes, t \in Now(clock) :
           Parser_parse(code, TRUE, 2000, n, r, o, t)

SpecParser == Init /\ [][NextParser]_vars

\* C17: a call of Parser.parse commits no more extensions than its bound, and when
\* it has committed one and the parser still rejects the code it ends in
\* SyntaxError.
LoopBounded ==
    [][last'.op = "Parser.parse"
       => LET committed == IF current_version' # current_version THEN 1 ELSE 0
          IN  /\ committed <= last'.arg.bound
              /\ (committed > 0 /\ BackendParse(lark_parser'[1], last'.arg.code) # "tree")
                 => last'.ret = "SyntaxError"]_vars

\* C18: Parser.parse returns the tree or raises SyntaxError, and nothing else
\* leaves it, whatever process_parse_error returns.
ParseTwoOutcomes ==
    last.op = "Parser.parse" => last.ret \in {"tree", "SyntaxError"}

\* for the arguments of a call of Parser.parse entered with this grammar current:
\* the agents are off, or no fragment is proposed, or the fragment fails the
\* validation, or the candidate of extend_grammar does not compile
NonCommitting(arg, current_grammar) ==
    \/ ~arg.use_agents
    \/ arg.max_tokens <= 0
    \/ arg.new_rule = None
    \/ ~validate_grammar_rule(current_grammar, arg.new_rule[1])
    \/ ~Compiles(ExtendedGrammar(current_grammar, arg.new_rule[1], AgentDescription))

\* C19: a Parser.parse whose parse fails and whose extension does not commit ends
\* in SyntaxError and leaves current_version, the parser and the store as they
\* were.
NonCommittingFails ==
    [][(/\ last'.op = "Parser.parse"
        /\ current_version # None
        /\ BackendParse(lark_parser[1], last'.arg.code) # "tree"
        /\ NonCommitting(last'.arg, current_version[1].grammar))
       => (/\ last'.ret = "SyntaxError"
           /\ current_version' = current_version
           /\ lark_parser' = lark_parser
           /\ store' = store)]_vars

\* C19 witness: the agents were on, the proposed fragment passed the validation,
\* extend_grammar refused its candidate and the call ended in SyntaxError
ExtensionRefusedInLoop ==
    /\ last.op = "Parser.parse" /\ last.ret = "SyntaxError"
    /\ last.arg.use_agents /\ last.arg.max_tokens > 0
    /\ last.arg.new_rule = Some(NewRuleDangling)
    /\ current_version # None /\ VersionIds(store) # {}
    /\ validate_grammar_rule(current_version[1].grammar, NewRuleDangling)
    /\ ~Compiles(ExtendedGrammar(current_version[1].grammar, NewRuleDangling,
                                 AgentDescription))

\* C20: GrammarManager.parse returns the tree when the parser accepts the code and
\* raises SyntaxError for every other outcome of the backend, and it leaves
\* current_version, the parser and the store as they were.
ManagerParseUniform ==
    [][(last'.op = "parse" /\ lark_parser # None)
       => (/\ last'.ret \in {"tree", "SyntaxError"}
           /\ last'.ret = "tree" <=> Accepts(lark_parser[1], last'.arg)
           /\ current_version' = current_version
           /\ lark_parser' = lark_parser
           /\ store' = store)]_vars

\* C20 witness: the backend raised an exception that is neither UnexpectedToken
\* nor UnexpectedCharacters and the caller got SyntaxError
BackendExceptionConverted ==
    /\ last.op = "parse" /\ last.arg = NotAString /\ last.ret = "SyntaxError"
    /\ lark_parser # None /\ BackendParse(lark_parser[1], last.arg) = "Exception"
    /\ VersionIds(store) # {}

\* a call of Parser.parse that committed an extension in the step
CommittedInLoop ==
    /\ last'.op = "Parser.parse"
    /\ current_version # None /\ current_version' # current_version
    /\ last'.arg.new_rule # None

\* the text validate_grammar_rule compiled and parsed the smoke test with
ValidatedText(current_grammar, new_rule) ==
    current_grammar \o << Blank, Comment("new rule") >> \o new_rule

\* C26: every version committed through the self-extension path compiles and
\* parses the smoke test, and it is the text the agent validated.
CommitsValidatedText ==
    [][CommittedInLoop
       => (/\ Compiles(current_version'[1].grammar)
           /\ BackendParse(current_version'[1].grammar, <<"T">>) = "tree"
           /\ current_version'[1].grammar =
                  ValidatedText(current_version[1].grammar, last'.arg.new_rule[1]))]_vars

\* C27: on every parse failure with self-extension enabled the agent is handed
\* the diagnostic of the failure as the error and the source text Parser.parse was
\* called with as the code.
HandsDiagnosticAndSource ==
    [][(/\ last'.op = "Parser.parse"
        /\ lark_parser # None
        /\ last'.arg.handed # None)
       => (/\ last'.arg.handed[1].error =
                  Diagnostic(BackendParse(lark_parser[1], last'.arg.code))
           /\ last'.arg.handed[1].code = last'.arg.code)]_vars

----------------------------------------------------------------------------
\* Parser.try_parse

\* a variant of TryOutcome whose except clause names SyntaxError only
TryOutcomeNarrow(outcome) ==
    IF outcome = "tree"
    THEN [raised |-> None, success |-> TRUE, tree |-> Some("tree"), error |-> None]
    ELSE IF outcome = "SyntaxError"
    THEN [raised |-> None, success |-> FALSE, tree |-> None, error |-> Some(outcome)]
    ELSE [raised |-> Some(outcome), success |-> FALSE, tree |-> None, error |-> None]

\* try: tree = self.parse(code); return True, tree, None
\* except Exception as e: return False, None, e
TryOutcome(outcome) ==
    IF outcome = "tree"
    THEN [raised |-> None, success |-> TRUE, tree |-> Some("tree"), error |-> None]
    ELSE [raised |-> None, success |-> FALSE, tree |-> None, error |-> Some(outcome)]

\* Parser.try_parse(code) of a Parser built with use_agents, under
\* config.agents.max_tokens; it calls self.parse(code) with no attempt bound
try_parse(code, use_agents, max_tokens, new_rule, outcome, t) ==
    /\ current_version # None
    /\ LET arg == [code |-> code, use_agents |-> use_agents, max_tokens |-> max_tokens,
                   bound |-> max_tokens, new_rule |-> new_rule,
                   handed |-> Handed(code, use_agents, max_tokens)]
           results == [tree |-> TryOutcome(ParseResults.tree),
                       syntax |-> TryOutcome(ParseResults.syntax),
                       attribute |-> TryOutcome(ParseResults.attribute)]
       IN  ParserParseBody(code, use_agents, max_tokens, new_rule, outcome, t,
                           "try_parse", arg, results)
    /\ UNCHANGED <<backup_dir, backup_info, io>>

NextTry ==
    \/ \E g \in InitialGrammars, t \in Now(clock) : ConstructInitial(g, "ok", t)
    \/ \E files \in Glob(store), b \in BOOLEAN, t \in Now(clock) :
           ConstructDefault(files, b, "ok", t)
    \/ Restart
    \/ \E code \in ParserCodes, off \in AgentsOff, r \in Proposals, t \in Now(clock) :
           try_parse(code, off[1], off[2], r, "ok", t)
    \/ \E code \in ParserCodes, r \in Proposals, o \in SaveOutcomes, t \in Now(clock) :
           try_parse(code, TRUE, 2000, r, o, t)

SpecTry == Init /\ [][NextTry]_vars

\* C21: Parser.try_parse never raises: it returns (True, tree, None) when the code
\* was parsed and (False, None, error) with an error that is not None otherwise.
TryParseNeverRaises ==
    (last.op = "try_parse")
        => (/\ last.ret.raised = None
            /\ \/ last.ret.success /\ last.ret.tree # None /\ last.ret.error = None
               \/ ~last.ret.success /\ last.ret.tree = None /\ last.ret.error # None)

\* C21 witness: the loop inside try_parse committed an extension and failed on
\* the coordinator's answer; try_parse returned that exception as the error
TryParseCaughtAttributeError ==
    /\ last.op = "try_parse"
    /\ ~last.ret.success /\ last.ret.error = Some("AttributeError")
    /\ last.ret.raised = None
    /\ current_version # last.before

----------------------------------------------------------------------------
\* get_grammar_manager

\* a variant of NeedsInstance that ignores the global
NeedsInstanceAlways(instance) == TRUE

\* if _grammar_manager_instance is None
NeedsInstance(instance) == instance = None

\* io.instance: the module's global _grammar_manager_instance, None or the identity
\* of a manager; io.made: the managers constructed in this process; io.returned:
\* what the last call of get_grammar_manager in this process returned; io.built:
\* whether that call ran the constructor
NoInstance ==
    [pc |-> "singleton", instance |-> None, made |-> 0, returned |-> None, built |-> FALSE]

InitSingleton ==
    /\ store = <<>>
    /\ current_version = None
    /\ lark_parser = None
    /\ clock = 0
    /\ nextId = 1
    /\ last = Call("none", None, "none", None)
    /\ backup_dir = <<>>
    /\ backup_info = None
    /\ io = NoInstance

\* get_grammar_manager(): GrammarManager() is built when the global is None and
\* assigned to it unless __init__ raised; the global is returned
get_grammar_manager(files, base_exists, outcome, t) ==
    /\ IF NeedsInstance(io.instance)
       THEN /\ ConstructDefaultBody(files, base_exists, outcome, t, "get_grammar_manager",
                                    [initial_grammar |-> None, base_exists |-> base_exists])
            /\ io' = IF current_version' = None
                     THEN [io EXCEPT !.instance = None, !.built = TRUE]
                     ELSE [io EXCEPT !.instance = Some(io.made + 1),
                                     !.made = io.made + 1,
                                     !.returned = Some(io.made + 1),
                                     !.built = TRUE]
       ELSE /\ last' = Call("get_grammar_manager",
                            [initial_grammar |-> None, base_exists |-> base_exists],
                            "manager", None)
            /\ io' = [io EXCEPT !.returned = io.instance, !.built = FALSE]
            /\ UNCHANGED <<store, current_version, lark_parser, nextId, clock>>
    /\ UNCHANGED <<backup_dir, backup_info>>

\* the process ends: the global goes with it, the version store stays on disk
Exit ==
    /\ io.instance # None \/ last.op = "get_grammar_manager"
    /\ current_version' = None
    /\ lark_parser' = None
    /\ last' = Call("exit", None, "none", None)
    /\ io' = NoInstance
    /\ UNCHANGED <<store, clock, nextId, backup_dir, backup_info>>

NextSingleton ==
    \/ \E files \in Glob(store), b \in BOOLEAN, o \in SaveOutcomes, t \in Now(clock) :
           get_grammar_manager(files, b, o, t)
    \/ Exit
    \/ \E g \in AddGrammars, d \in Descriptions, c \in Creators,
          o \in SaveOutcomes, t \in Now(clock) : add_version(g, d, c, o, t)
    \/ \E id \in 1..(MaxVersions + 1) : rollback_to_version(id)

SpecSingleton == InitSingleton /\ [][NextSingleton]_vars

\* C22: get_grammar_manager constructs at most one GrammarManager in a process and
\* every call that returns hands out the instance the call before it handed out.
SingletonAccessor ==
    [][(last'.op = "get_grammar_manager")
       => (/\ io'.made <= 1
           /\ (io.returned # None /\ last'.ret = "manager")
                  => io'.returned = io.returned)]_vars

\* C22 witness: a second call returned the manager the first call had built, after
\* the manager had moved to another version in between
SameInstanceAgain ==
    /\ last.op = "get_grammar_manager" /\ ~io.built
    /\ io.made = 1 /\ io.returned = Some(1) /\ io.instance = Some(1)
    /\ current_version # None /\ current_version[1].version_id > 1

----------------------------------------------------------------------------
\* Line, column and context of a parse failure

MaxText == 4

NL == "\n"

\* source texts as sequences of characters; offsets count from 0 as in the
\* source, so the character at offset i is text[i + 1]
Texts == SeqsUpTo({"a", NL}, MaxText)

\* line_starts without its first entry: i + 1 for every i with text[i] == "\n"
RECURSIVE LineStarts(_, _)
LineStarts(text, i) ==
    IF i >= Len(text) THEN <<>>
    ELSE (IF text[i + 1] = NL THEN <<i + 1>> ELSE <<>>) \o LineStarts(text, i + 1)

\* a variant of ScanLine that compares with <=
RECURSIVE ScanLineInclusive(_, _, _, _)
ScanLineInclusive(line_starts, i, pos, line) ==
    IF i + 1 > Len(line_starts) THEN line
    ELSE IF pos <= line_starts[i + 1] THEN i
    ELSE ScanLineInclusive(line_starts, i + 1, pos, i + 1)

\* for i, start in enumerate(line_starts[1:], 1):
\*     if pos < start: line = i; break
\*     else: line = i + 1
RECURSIVE ScanLine(_, _, _, _)
ScanLine(line_starts, i, pos, line) ==
    IF i + 1 > Len(line_starts) THEN line
    ELSE IF pos < line_starts[i + 1] THEN i
    ELSE ScanLine(line_starts, i + 1, pos, i + 1)

_get_line_col(text, pos) ==
    LET line_starts == <<0>> \o LineStarts(text, 0)
        line == ScanLine(line_starts, 1, pos, 1)
    IN  [line |-> line, column |-> pos - line_starts[line] + 1]

\* text.split("\n")
RECURSIVE Split(_)
Split(text) ==
    IF \A i \in 1..Len(text) : text[i] # NL THEN <<text>>
    ELSE LET i == CHOOSE k \in 1..Len(text) :
                      text[k] = NL /\ \A j \in 1..(k - 1) : text[j] # NL
         IN  <<SubSeq(text, 1, i - 1)>> \o Split(SubSeq(text, i + 1, Len(text)))

\* "\n".join(context)
RECURSIVE Join(_)
Join(context) ==
    IF context = <<>> THEN <<>>
    ELSE IF Len(context) = 1 THEN context[1]
    ELSE context[1] \o <<NL>> \o Join(Tail(context))

DigitChars == <<"0", "1", "2", "3", "4", "5", "6", "7", "8", "9">>

\* str(n) of a number that is not negative
RECURSIVE Str(_)
Str(n) ==
    IF n < 10 THEN <<DigitChars[n + 1]>>
    ELSE Str(n \div 10) \o <<DigitChars[(n % 10) + 1]>>

\* max(a, b) and min(a, b)
max(a, b) == IF a >= b THEN a ELSE b

min(a, b) == IF a <= b THEN a ELSE b

\* f"{prefix}{line_num}: {lines[i]}"
ContextEntry(prefix, line_num, content) == prefix \o Str(line_num) \o <<":", " ">> \o content

\* a variant of _get_error_context whose window starts one line late
ErrorContextLate(text, line, context_lines) ==
    LET lines == Split(text)
        start_line == max(0, line - context_lines)
        end_line == min(Len(lines), line + context_lines)
        context == [k \in 1..max(0, end_line - start_line) |->
                       LET line_num == start_line + k IN
                       ContextEntry(IF line_num = line THEN <<"-", ">", " ">>
                                    ELSE <<" ", " ", " ">>,
                                    line_num, lines[line_num])]
    IN  Join(context)

\* _get_error_context(text, line, context_lines=2); range(start_line, end_line)
\* visits i = start_line + k - 1 for k = 1..end_line - start_line, line_num = i + 1
_get_error_context(text, line, context_lines) ==
    LET lines == Split(text)
        start_line == max(0, line - context_lines - 1)
        end_line == min(Len(lines), line + context_lines)
        context == [k \in 1..max(0, end_line - start_line) |->
                       LET line_num == start_line + k IN
                       ContextEntry(IF line_num = line THEN <<"-", ">", " ">>
                                    ELSE <<" ", " ", " ">>,
                                    line_num, lines[line_num])]
    IN  Join(context)

\* the default of context_lines
ContextLines == 2

InitText ==
    /\ store = <<>>
    /\ current_version = None
    /\ lark_parser = None
    /\ clock = 0
    /\ nextId = 1
    /\ last = Call("none", None, "none", None)
    /\ backup_dir = <<>>
    /\ backup_info = None
    /\ \E text \in Texts : io = [pc |-> "text", text |-> text]

\* the UnexpectedToken handler of parse: the backend reports the offset
\* e.pos_in_stream; line and column come from _get_line_col
LocateToken(pos_in_stream) ==
    /\ io.pc = "text"
    /\ LET lc == _get_line_col(io.text, pos_in_stream) IN
       io' = [pc |-> "token", text |-> io.text, pos |-> pos_in_stream,
              line |-> lc.line, column |-> lc.column,
              context |-> _get_error_context(io.text, lc.line, ContextLines)]
    /\ UNCHANGED <<store, current_version, lark_parser, clock, nextId, last,
                   backup_dir, backup_info>>

\* the UnexpectedCharacters handler of parse: the backend reports e.line and
\* e.column itself
LocateCharacter(line, column) ==
    /\ io.pc = "text"
    /\ io' = [pc |-> "character", text |-> io.text, pos |-> 0,
              line |-> line, column |-> column,
              context |-> _get_error_context(io.text, line, ContextLines)]
    /\ UNCHANGED <<store, current_version, lark_parser, clock, nextId, last,
                   backup_dir, backup_info>>

NextText ==
    \/ \E pos \in 0..Len(io.text) : LocateToken(pos)
    \/ \E line \in 1..Len(Split(io.text)) :
           \E column \in 1..(Len(Split(io.text)[line]) + 1) : LocateCharacter(line, column)

SpecText == InitText /\ [][NextText]_vars

\* the offsets before pos that hold a newline
NewlinesBefore(text, pos) == {i \in 0..(pos - 1) : text[i + 1] = NL}

\* the offset of the first character of the line that holds pos
LineOffset(text, pos) ==
    IF NewlinesBefore(text, pos) = {} THEN 0
    ELSE 1 + CHOOSE i \in NewlinesBefore(text, pos) :
                 \A j \in NewlinesBefore(text, pos) : j <= i

\* C23: for every text and every pos with 0 <= pos <= len(text), _get_line_col
\* gives line = 1 + the number of newlines before pos and column = pos - the
\* offset of the first character of that line + 1.
LineColOfOffset ==
    (io.pc = "token")
        => (/\ io.line = 1 + Cardinality(NewlinesBefore(io.text, io.pos))
            /\ io.column = io.pos - LineOffset(io.text, io.pos) + 1)

\* C23 witness: the offset is that of the first character of a line after the
\* first, right behind a newline
OffsetBehindNewline ==
    /\ io.pc = "token" /\ io.pos > 0 /\ io.pos < Len(io.text)
    /\ io.text[io.pos] = NL
    /\ io.line = 2 /\ io.column = 1

\* the lines of the context and the window of lines the claim names
Shown == Split(io.context)

WindowLow == max(1, io.line - 2)

WindowHigh == min(Len(Split(io.text)), io.line + 2)

Located == io.pc \in {"token", "character"}

\* a row made of blanks that ends in a caret at or behind the column
CaretRow(row, column) ==
    /\ Len(row) >= column
    /\ row[Len(row)] = "^"
    /\ \A k \in 1..(Len(row) - 1) : row[k] = " "

\* a row that shows line i of the text behind its number, after one of the markers
NumberedRow(row, i) ==
    \E marker \in {<<"-", ">", " ">>, <<" ", " ", " ">>} :
        row = marker \o Str(i) \o <<":", " ">> \o Split(io.text)[i]

----------------------------------------------------------------------------
\* The agent coordinator and the parsers that share it

\* AgentCoordinator(enable_agents): enabled is the flag, and grammar_agent is set
\* when the flag is on (TRUE: a GrammarAgent, FALSE: None)
AgentCoordinator(enable_agents) ==
    [enabled |-> enable_agents, grammar_agent |-> enable_agents]

\* get_agent_coordinator(enable_agents): the module's global _agent_coordinator is
\* built when it is None and returned as it is otherwise
get_agent_coordinator(global, enable_agents) ==
    IF global = None THEN Some(AgentCoordinator(enable_agents)) ELSE global

\* AgentCoordinator.shutdown
shutdown(coordinator) ==
    IF coordinator.enabled THEN [enabled |-> FALSE, grammar_agent |-> FALSE]
    ELSE coordinator

\* a variant of Off that lets every coordinator through
OffNever(coordinator) == FALSE

\* not self.enabled or not self.grammar_agent
Off(coordinator) == ~coordinator.enabled \/ ~coordinator.grammar_agent

\* the step of process_parse_error that throws: the analysis, the generation, the
\* validation outside its own try, or extend_grammar before it compiles
Throws == {"none", "analysis", "generation", "validation", "extension"}

\* AgentCoordinator.process_parse_error on a coordinator: the candidate that is
\* committed, or None when the method returns False; an exception of a step is
\* caught by process_unknown_construct or by the method itself
CoordinatorProcess(coordinator, current_grammar, new_rule, throws) ==
    IF Off(coordinator) THEN None
    ELSE IF throws # "none" THEN None
    ELSE process_unknown_construct(current_grammar, new_rule)

\* io.coordinator: the global _agent_coordinator; io.parser: the Parser obtained
\* last, with the flag it was asked for
NoAgents == [pc |-> "agents", coordinator |-> None, parser |-> None]

InitAgents ==
    /\ store = <<>>
    /\ current_version = None
    /\ lark_parser = None
    /\ clock = 0
    /\ nextId = 1
    /\ last = Call("none", None, "none", None)
    /\ backup_dir = <<>>
    /\ backup_info = None
    /\ io = NoAgents

\* Parser(use_agents) once the grammar manager exists
NewParser(use_agents) ==
    /\ current_version # None
    /\ io' = [io EXCEPT !.coordinator = get_agent_coordinator(io.coordinator, use_agents),
                        !.parser = Some([use_agents |-> use_agents])]
    /\ last' = Call("Parser", [use_agents |-> use_agents], "parser", None)
    /\ UNCHANGED <<store, current_version, lark_parser, nextId, clock,
                   backup_dir, backup_info>>

\* get_agent_coordinator().shutdown()
Shutdown ==
    /\ io.coordinator # None
    /\ io' = [io EXCEPT !.coordinator = Some(shutdown(io.coordinator[1]))]
    /\ last' = Call("shutdown", io.coordinator[1], "none", None)
    /\ UNCHANGED <<store, current_version, lark_parser, nextId, clock,
                   backup_dir, backup_info>>

\* parse(code) of the Parser obtained last: self.agent_coordinator is the global
SharedParse(code, max_tokens, new_rule, outcome, t) ==
    /\ current_version # None
    /\ io.parser # None
    /\ LET enabled == ~Off(io.coordinator[1])
           arg == [code |-> code, use_agents |-> io.parser[1].use_agents,
                   max_tokens |-> max_tokens, bound |-> max_tokens,
                   new_rule |-> new_rule,
                   handed |-> Handed(code, enabled, max_tokens),
                   enabled |-> io.coordinator[1].enabled]
       IN  ParserParseBody(code, enabled, max_tokens, new_rule, outcome, t,
                           "Parser.parse", arg, ParseResults)
    /\ UNCHANGED <<backup_dir, backup_info, io>>

\* get_agent_coordinator().process_parse_error(error, code_snippet)
CoordinatorCall(new_rule, throws, outcome, t) ==
    /\ current_version # None
    /\ io.coordinator # None
    /\ LET arg == [coordinator |-> io.coordinator[1], new_rule |-> new_rule,
                   throws |-> throws]
           candidate == CoordinatorProcess(io.coordinator[1], current_version[1].grammar,
                                           new_rule, throws)
       IN  IF candidate = None
           THEN /\ last' = Call("process_parse_error", arg, "False", None)
                /\ UNCHANGED <<store, current_version, lark_parser, nextId, clock>>
           ELSE /\ nextId <= MaxVersions
                /\ AddVersionBody(candidate[1], AgentDescription, "manual", outcome, t,
                                  "process_parse_error", arg, "True", "False")
    /\ UNCHANGED <<backup_dir, backup_info, io>>

NextAgents ==
    \/ \E g \in InitialGrammars, t \in Now(clock) : ConstructInitial(g, "ok", t)
    \/ \E b \in BOOLEAN : NewParser(b)
    \/ Shutdown
    \/ \E code \in LoopCodes, mt \in {0, 2000}, r \in Proposals, o \in SaveOutcomes,
          t \in Now(clock) : SharedParse(code, mt, r, o, t)
    \/ \E r \in Proposals, th \in Throws, o \in SaveOutcomes, t \in Now(clock) :
           CoordinatorCall(r, th, o, t)

SpecAgents == InitAgents /\ [][NextAgents]_vars

\* C28: process_parse_error never raises; it returns True only when the call made
\* a new version current, and it returns False and leaves the grammar as it was
\* when the coordinator is disabled or shut down or when a step fails or throws.
CoordinatorNeverRaises ==
    [][(last'.op = "process_parse_error")
       => (/\ last'.ret \in {"True", "False"}
           /\ last'.ret = "True"
                  => /\ current_version' # current_version
                     /\ current_version'[1].version_id \notin DOMAIN store
                     /\ current_version'[1].version_id
                            # current_version[1].version_id
           /\ last'.ret = "False"
                  => /\ current_version' = current_version
                     /\ lark_parser' = lark_parser
                     /\ store' = store
           /\ (\/ ~last'.arg.coordinator.enabled
               \/ last'.arg.throws # "none"
               \/ last'.arg.new_rule = None
               \/ ~validate_grammar_rule(current_version[1].grammar,
                                         last'.arg.new_rule[1])
               \/ ~Compiles(ExtendedGrammar(current_version[1].grammar,
                                            last'.arg.new_rule[1], AgentDescription)))
                  => last'.ret = "False")]_vars

\* C28 witness: a coordinator that had extended the grammar was shut down, and
\* the next call, with a fragment that validates, returned False
RefusedAfterShutdown ==
    /\ last.op = "process_parse_error" /\ last.ret = "False"
    /\ ~last.arg.coordinator.enabled /\ last.arg.throws = "none"
    /\ last.arg.new_rule # None
    /\ current_version # None
    /\ current_version[1].description = AgentDescription
    /\ validate_grammar_rule(current_version[1].grammar, last.arg.new_rule[1])

\* C30: a Parser obtained with use_agents=False has self-extension disabled: its
\* parse leaves the grammar as it was, whatever parsers and coordinators were
\* created before it.
AgentsOffLeavesGrammar ==
    [][(last'.op = "Parser.parse" /\ ~last'.arg.use_agents)
       => (/\ current_version' = current_version
           /\ lark_parser' = lark_parser
           /\ store' = store)]_vars

====
